---- MODULE Spec2Model ----
(***************************************************************************)
(* A model of termsweeper.py: the MineGrid widget (mine layout, per-button *)
(* explored/flagged attributes, the two counters), the recursive open_cell *)
(* flood reveal, and the message-driven game end and reset.                *)
(*                                                                         *)
(* Messages are posted, not called: MineButton.Selected and                *)
(* MineGrid.GameEnd wait in the grid's message queue until their handler   *)
(* runs, and Reset waits in the application's queue.  Focus handling       *)
(* (_current_cell, can_focus), colours and the timer are presentation      *)
(* state that no handler of the board reads, and are left out.             *)
(***************************************************************************)
EXTENDS Integers, Sequences, FiniteSets, TLC

\* The grid of the source is 16 x 16 with 40 mines (termsweeper.py:12-14);
\* the model keeps the same code on a small grid.
GRID_WIDTH == 3
GRID_HEIGHT == 3
\* MINES_AMOUNT is drawn from 1..MaxMines when the model starts.
MaxMines == 2
\* Clicks and key presses the player makes in one run.
MaxClicks == 2

VARIABLES
    MINES_AMOUNT,    \* the configured number of mines
    mines,           \* MineGrid.mines: set of Position
    explored,        \* button.explored, per position
    flagged,         \* button.flagged, per position
    label,           \* button.label, per position
    total_explored,  \* MineGrid.total_explored
    mines_flagged,   \* MineGrid.mines_flagged
    disabled,        \* MineGrid.disabled
    restart_label,   \* InfoBar.restart_button.label
    queue,           \* the grid's message queue: Selected and GameEnd
    reset_posted,    \* a Reset message waits in the application's queue
    clicks,          \* inputs the player has made
    outcome          \* the branch the last handler of the grid took

vars == <<MINES_AMOUNT, mines, explored, flagged, label, total_explored,
          mines_flagged, disabled, restart_label, queue, reset_posted, clicks,
          outcome>>

----------------------------------------------------------------------------
\* Position and the grid

Position(r, c) == [row |-> r, col |-> c]

Rows == 0 .. GRID_HEIGHT - 1
Cols == 0 .. GRID_WIDTH - 1

\* buttons: one MineButton per (row, col)
Positions == {Position(r, c) : r \in Rows, c \in Cols}

Max(a, b) == IF a >= b THEN a ELSE b
Min(a, b) == IF a <= b THEN a ELSE b

\* random.sample(range(n), amount): every set of `amount` distinct indices
sample(n, amount) == {S \in SUBSET (0 .. n - 1) : Cardinality(S) = amount}

\* A variant that draws with replacement (random.choices): a drawn index may
\* repeat, so fewer than `amount` positions may come out.
generate_mines_with_replacement(amount) ==
    {{Position(x \div GRID_WIDTH, x % GRID_WIDTH) : x \in S} :
        S \in UNION {sample(GRID_HEIGHT * GRID_WIDTH, k) : k \in 1 .. amount}}

\* Position(int(x/GRID_WIDTH), x % GRID_WIDTH) for each sampled x
generate_mines(amount) ==
    {{Position(x \div GRID_WIDTH, x % GRID_WIDTH) : x \in S} :
        S \in sample(GRID_HEIGHT * GRID_WIDTH, amount)}

\* count_mines_near: the unclipped 3 x 3 scan around pos, pos included
UnclippedScan(pos) ==
    {Position(i, j) : i \in pos.row - 1 .. pos.row + 1,
                      j \in pos.col - 1 .. pos.col + 1}

\* A variant whose row range stops at pos.row (range(pos.row-1, pos.row+1)).
count_mines_near_short(pos) ==
    Cardinality({q \in {Position(i, j) : i \in pos.row - 1 .. pos.row,
                                         j \in pos.col - 1 .. pos.col + 1} :
                    q \in mines})

count_mines_near(pos) ==
    Cardinality({q \in UnclippedScan(pos) : q \in mines})

\* A variant whose row range stops at pos.row (min(GRID_HEIGHT, pos.row+1)).
ScanRows_short(pos) ==
    Max(0, pos.row - 1) .. Min(GRID_HEIGHT, pos.row + 1) - 1

\* the clipped scan of open_cell, in the order the two for loops visit it
ScanRows(pos) ==
    Max(0, pos.row - 1) .. Min(GRID_HEIGHT, pos.row + 1 + 1) - 1
ScanCols(pos) ==
    Max(0, pos.col - 1) .. Min(GRID_WIDTH, pos.col + 1 + 1) - 1

ClippedScan(pos) ==
    LET r0 == Max(0, pos.row - 1)
        c0 == Max(0, pos.col - 1)
        nc == Cardinality(ScanCols(pos))
        n  == Cardinality(ScanRows(pos)) * nc
    IN  [k \in 1 .. n |-> Position(r0 + ((k - 1) \div nc), c0 + ((k - 1) % nc))]

----------------------------------------------------------------------------
\* Labels

CHAR_UNOPENED == "unopened"
CHAR_EMPTY == "empty"
CHAR_FLAGGED == "flag"
CHAR_MINE == "mine"
\* set_number: str(value)
NumberLabel(value) == <<"1", "2", "3", "4", "5", "6", "7", "8", "9">>[value]

----------------------------------------------------------------------------
\* Messages

Selected(pos, action) ==
    [type |-> "Selected", pos |-> pos, action |-> action, win |-> FALSE]
GameEnd(win) ==
    [type |-> "GameEnd", pos |-> Position(0, 0), action |-> "NONE", win |-> win]

----------------------------------------------------------------------------
\* MineGrid.open_cell.  A grid value g holds what the recursion changes:
\* explored and label of every button, total_explored, and the GameEnd
\* messages posted so far (posts, in posting order).

GridNow ==
    [explored |-> explored, label |-> label, total |-> total_explored,
     posts |-> <<>>]

RECURSIVE open_cell(_, _), open_adjacent(_, _, _)

\* the body of the two for loops: open_cell on scan[k], scan[k+1], ...
\* (h.total >= 0 always holds: the test has TLC evaluate the call on scan[k]
\* before it goes on to scan[k+1], as the loop does)
open_adjacent(g, scan, k) ==
    IF k > Len(scan) THEN g
    ELSE LET h == open_cell(g, scan[k])
         IN  IF h.total >= 0 THEN open_adjacent(h, scan, k + 1) ELSE h

\* The win check of open_cell, after the cell's own work is done
win_check(g) ==
    IF g.total >= GRID_HEIGHT * GRID_WIDTH - MINES_AMOUNT
    THEN [g EXCEPT !.posts = Append(@, GameEnd(TRUE))]
    ELSE g

\* A variant that counts the cell before looking at button.explored.
open_cell_recount(g, pos) ==
    IF g.explored[pos] THEN [g EXCEPT !.total = @ + 1]
    ELSE
        LET g1 == [g EXCEPT !.explored[pos] = TRUE, !.total = @ + 1]
        IN  IF pos \in mines
            THEN [g1 EXCEPT !.label[pos] = CHAR_MINE,
                            !.posts = Append(@, GameEnd(FALSE))]
            ELSE
                LET mines_nearby == count_mines_near(pos)
                IN  win_check(
                        IF mines_nearby = 0
                        THEN open_adjacent(
                                 [g1 EXCEPT !.label[pos] = CHAR_EMPTY],
                                 ClippedScan(pos), 1)
                        ELSE [g1 EXCEPT
                                 !.label[pos] = NumberLabel(mines_nearby)])

\* A variant that counts the cell only after the mine test.
open_cell_uncounted_mine(g, pos) ==
    IF g.explored[pos] THEN g
    ELSE
        LET g0 == [g EXCEPT !.explored[pos] = TRUE]
            g1 == [g0 EXCEPT !.total = @ + 1]
        IN  IF pos \in mines
            THEN [g0 EXCEPT !.label[pos] = CHAR_MINE,
                            !.posts = Append(@, GameEnd(FALSE))]
            ELSE
                LET mines_nearby == count_mines_near(pos)
                IN  win_check(
                        IF mines_nearby = 0
                        THEN open_adjacent(
                                 [g1 EXCEPT !.label[pos] = CHAR_EMPTY],
                                 ClippedScan(pos), 1)
                        ELSE [g1 EXCEPT
                                 !.label[pos] = NumberLabel(mines_nearby)])

open_cell(g, pos) ==
    IF g.explored[pos] THEN g
    ELSE
        LET g1 == [g EXCEPT !.explored[pos] = TRUE, !.total = @ + 1]
        IN  IF pos \in mines
            THEN [g1 EXCEPT !.label[pos] = CHAR_MINE,
                            !.posts = Append(@, GameEnd(FALSE))]
            ELSE
                LET mines_nearby == count_mines_near(pos)
                IN  win_check(
                        IF mines_nearby = 0
                        THEN open_adjacent(
                                 [g1 EXCEPT !.label[pos] = CHAR_EMPTY],
                                 ClippedScan(pos), 1)
                        ELSE [g1 EXCEPT
                                 !.label[pos] = NumberLabel(mines_nearby)])

\* MineGrid.reveal_mines: the label and flagged of every button afterwards
reveal_mines_flagged(won) ==
    [p \in Positions |-> IF won /\ p \in mines THEN TRUE ELSE flagged[p]]

\* A variant of the display that leaves the labels alone after a win.
reveal_mines_label_loss_only(won) ==
    [p \in Positions |->
        IF p \in mines /\ ~won THEN CHAR_MINE ELSE label[p]]

reveal_mines_label(won) ==
    [p \in Positions |->
        IF p \notin mines THEN label[p]
        ELSE IF won THEN (IF flagged[p] THEN label[p] ELSE CHAR_FLAGGED)
        ELSE CHAR_MINE]

----------------------------------------------------------------------------
\* Initial state: MineGrid.__init__ and MineButton.__init__ (reset)

Init ==
    /\ MINES_AMOUNT \in 1 .. MaxMines
    /\ mines \in generate_mines(MINES_AMOUNT)
    /\ explored = [p \in Positions |-> FALSE]
    /\ flagged = [p \in Positions |-> FALSE]
    /\ label = [p \in Positions |-> CHAR_UNOPENED]
    /\ total_explored = 0
    /\ mines_flagged = 0
    /\ disabled = FALSE
    /\ restart_label = "smile"
    /\ queue = <<>>
    /\ reset_posted = FALSE
    /\ clicks = 0
    /\ outcome = "None"

----------------------------------------------------------------------------
\* Actions

\* MineButton.on_click, action_flag_selected, action_open_selected: the
\* player selects a button of the grid; a disabled grid takes no input.
Click(pos, action) ==
    /\ ~disabled
    /\ clicks < MaxClicks
    /\ queue' = Append(queue, Selected(pos, action))
    /\ clicks' = clicks + 1
    /\ UNCHANGED <<MINES_AMOUNT, mines, explored, flagged, label,
                   total_explored, mines_flagged, disabled, restart_label,
                   reset_posted, outcome>>

\* The two tests of handle_selected
\* A variant of the first test that does not look at button.flagged.
opens_any(event) == event.action = "OPEN"

opens(event) == event.action = "OPEN" /\ flagged[event.pos] = FALSE

\* A variant of the second test that does not look at button.explored.
flags_any(event) == event.action = "FLAG"

flags(event) == event.action = "FLAG" /\ explored[event.pos] = FALSE

\* A variant of flag_cell that always counts up.
flag_cell_count_up(pos) == mines_flagged + 1

\* flag_cell: mines_flagged += 1 if not button.flagged else -1
flag_cell_count(pos) == mines_flagged + (IF ~flagged[pos] THEN 1 ELSE -1)

\* MineGrid.handle_selected on the Selected message at the head of the queue
handle_selected ==
    /\ queue # <<>>
    /\ Head(queue).type = "Selected"
    /\ LET event == Head(queue)
           pos == event.pos
       IN  IF opens(event)
           THEN LET g == open_cell(GridNow, pos)
                IN  /\ explored' = g.explored
                    /\ label' = g.label
                    /\ total_explored' = g.total
                    /\ queue' = Tail(queue) \o g.posts
                    /\ outcome' = IF explored[pos] THEN "AlreadyRevealed"
                                  ELSE IF pos \in mines THEN "Detonated"
                                  ELSE "Cleared"
                    /\ UNCHANGED <<flagged, mines_flagged>>
           ELSE IF flags(event)
           THEN \* flag_cell, then MineButton.toggle_flagged
                /\ mines_flagged' = flag_cell_count(pos)
                /\ flagged' = [flagged EXCEPT ![pos] = ~flagged[pos]]
                /\ label' = [label EXCEPT ![pos] =
                       IF flagged'[pos] THEN CHAR_FLAGGED ELSE CHAR_UNOPENED]
                /\ queue' = Tail(queue)
                /\ outcome' = IF flagged'[pos] THEN "Flagged" ELSE "Unflagged"
                /\ UNCHANGED <<explored, total_explored>>
           ELSE /\ queue' = Tail(queue)
                /\ outcome' = IF event.action = "OPEN" THEN "Blocked"
                              ELSE "FlagBlocked"
                /\ UNCHANGED <<explored, flagged, label, total_explored,
                               mines_flagged>>
    /\ UNCHANGED <<MINES_AMOUNT, mines, disabled, restart_label, reset_posted,
                   clicks>>

\* MineGrid.end_game on the GameEnd message at the head of the queue, and
\* TermSweeperApp.handle_game_end on the same message as it bubbles up
end_game ==
    /\ queue # <<>>
    /\ Head(queue).type = "GameEnd"
    /\ LET event == Head(queue)
       IN  /\ disabled' = TRUE
           /\ flagged' = reveal_mines_flagged(event.win)
           /\ label' = reveal_mines_label(event.win)
           /\ restart_label' = IF event.win THEN "cool" ELSE "dizzy"
    /\ queue' = Tail(queue)
    /\ outcome' = "GameEnd"
    /\ UNCHANGED <<MINES_AMOUNT, mines, explored, total_explored,
                   mines_flagged, reset_posted, clicks>>

\* InfoBar.on_button_pressed: the restart button posts Reset
on_button_pressed ==
    /\ ~reset_posted
    /\ reset_posted' = TRUE
    /\ UNCHANGED <<MINES_AMOUNT, mines, explored, flagged, label,
                   total_explored, mines_flagged, disabled, restart_label,
                   queue, clicks, outcome>>

\* A variant of the reset that leaves MineGrid.disabled as it is.
reset_still_disabled ==
    /\ reset_posted
    /\ reset_posted' = FALSE
    /\ total_explored' = 0
    /\ mines_flagged' = 0
    /\ explored' = [p \in Positions |-> FALSE]
    /\ flagged' = [p \in Positions |-> FALSE]
    /\ label' = [p \in Positions |-> CHAR_UNOPENED]
    /\ mines' \in generate_mines(MINES_AMOUNT)
    /\ restart_label' = "smile"
    /\ outcome' = "Reset"
    /\ UNCHANGED <<MINES_AMOUNT, queue, clicks, disabled>>

\* TermSweeperApp.reset: MineGrid.reset (every MineButton.reset, a new mine
\* set) and InfoBar.reset
reset ==
    /\ reset_posted
    /\ reset_posted' = FALSE
    /\ total_explored' = 0
    /\ mines_flagged' = 0
    /\ explored' = [p \in Positions |-> FALSE]
    /\ flagged' = [p \in Positions |-> FALSE]
    /\ label' = [p \in Positions |-> CHAR_UNOPENED]
    /\ mines' \in generate_mines(MINES_AMOUNT)
    /\ disabled' = FALSE
    /\ restart_label' = "smile"
    /\ outcome' = "Reset"
    /\ UNCHANGED <<MINES_AMOUNT, queue, clicks>>

Next ==
    \/ \E pos \in Positions, action \in {"OPEN", "FLAG"} : Click(pos, action)
    \/ handle_selected
    \/ end_game
    \/ on_button_pressed
    \/ reset

Spec == Init /\ [][Next]_vars

\* One board from its construction on, the restart button left alone
NextOneBoard ==
    \/ \E pos \in Positions, action \in {"OPEN", "FLAG"} : Click(pos, action)
    \/ handle_selected
    \/ end_game

SpecOneBoard == Init /\ [][NextOneBoard]_vars

----------------------------------------------------------------------------
\* Construction of the grid for an arbitrary amount of mines

\* the amounts tried: every amount the board can hold, one below and one above
Amounts == -1 .. (GRID_HEIGHT * GRID_WIDTH + 1)

\* A variant of the test that also refuses 0 and the full population.
sample_raises_outside_open(n, amount) == amount <= 0 \/ amount >= n

\* random.sample(population, k) raises ValueError ("Sample larger than
\* population or is negative") exactly when not 0 <= k <= len(population)
sample_raises(n, amount) == amount < 0 \/ amount > n

\* the class attributes of MineGrid before __init__ has run
InitConstruct ==
    /\ MINES_AMOUNT \in Amounts
    /\ mines = {}
    /\ explored = [p \in Positions |-> FALSE]
    /\ flagged = [p \in Positions |-> FALSE]
    /\ label = [p \in Positions |-> CHAR_UNOPENED]
    /\ total_explored = 0
    /\ mines_flagged = 0
    /\ disabled = FALSE
    /\ restart_label = "smile"
    /\ queue = <<>>
    /\ reset_posted = FALSE
    /\ clicks = 0
    /\ outcome = "Unbuilt"

\* MineGrid.__init__: self.mines = self.generate_mines(MINES_AMOUNT); the
\* only failure is the ValueError of random.sample, which leaves no grid
construct ==
    /\ outcome = "Unbuilt"
    /\ IF sample_raises(GRID_HEIGHT * GRID_WIDTH, MINES_AMOUNT)
       THEN /\ outcome' = "ValueError"
            /\ UNCHANGED mines
       ELSE /\ outcome' = "Built"
            /\ mines' \in generate_mines(MINES_AMOUNT)
    /\ UNCHANGED <<MINES_AMOUNT, explored, flagged, label, total_explored,
                   mines_flagged, disabled, restart_label, queue,
                   reset_posted, clicks>>

NextConstruct == construct

SpecConstruct == InitConstruct /\ [][NextConstruct]_vars

----------------------------------------------------------------------------
\* Vocabulary of the properties

\* the cells a player would count as revealed
Revealed == {p \in Positions : explored[p]}

\* the mines among the up-to-8 neighbours of pos on the board, pos excluded
AdjacentMines(pos) ==
    Cardinality({m \in mines : /\ m # pos
                               /\ m.row - pos.row \in {-1, 0, 1}
                               /\ m.col - pos.col \in {-1, 0, 1}})

\* the session status: the grid is disabled by end_game, and the restart
\* button shows which GameEnd was handled last
Status ==
    IF ~disabled THEN "Playing"
    ELSE IF restart_label = "cool" THEN "Won" ELSE "Lost"

\* no message is waiting for a handler
Quiescent == queue = <<>> /\ ~reset_posted

\* the step is a handler of the grid taking msg from the head of its queue
Handled(msg) ==
    /\ queue # <<>>
    /\ Head(queue) = msg
    /\ clicks' = clicks
    /\ reset_posted' = reset_posted

\* the step is TermSweeperApp.reset
ResetStep == reset_posted /\ ~reset_posted'

SafeCells == GRID_HEIGHT * GRID_WIDTH - MINES_AMOUNT

----------------------------------------------------------------------------
\* C1: while the game is being played, no cell is both flagged and explored.
\* Stated as claimed; the flood reveal of open_cell opens flagged
\* neighbours, so the code breaks it.
C1_NoFlaggedRevealed ==
    ~disabled => \A p \in Positions : ~(flagged[p] /\ explored[p])

\* C2: the session is Won exactly when total_explored equals W*H - M and no
\* mine has been explored.  Stated for the states in which every posted
\* message has been handled.
C2_WonIffCleared ==
    Quiescent =>
        (Status = "Won" <=>
            (total_explored = SafeCells /\ Revealed \cap mines = {}))

\* C3: at most one mine is ever explored, and (once every posted message
\* has been handled) the session is Lost exactly when one mine is explored.
C3_LostIffOneMine ==
    /\ Cardinality(Revealed \cap mines) <= 1
    /\ Quiescent =>
           (Status = "Lost" <=> Cardinality(Revealed \cap mines) = 1)

\* C4: once the session is Won or Lost, no step other than the reset changes
\* the board or the status.
C4_TerminalFrozen ==
    [][(disabled /\ ~ResetStep) =>
           UNCHANGED <<mines, explored, flagged, total_explored,
                       mines_flagged, disabled, restart_label>>]_vars

\* C5: total_explored equals the number of explored buttons, the detonated
\* mine and the cells opened by a flood reveal counted once each.
C5_RevealedCount == total_explored = Cardinality(Revealed)

\* a flood reveal has run (an explored cell with no mine around it) and a
\* mine has then been detonated
C5_Witness ==
    /\ \E p \in Revealed \ mines : AdjacentMines(p) = 0
    /\ Revealed \cap mines # {}
    /\ total_explored >= 4
    /\ Revealed # Positions

Neighbourhood(q) ==
    {n \in Positions : /\ n.row - q.row \in {-1, 0, 1}
                       /\ n.col - q.col \in {-1, 0, 1}}

RECURSIVE ZeroRegion(_)
ZeroRegion(S) ==
    LET T == S \cup UNION {Neighbourhood(q) :
                              q \in {z \in S : AdjacentMines(z) = 0}}
    IN  IF T = S THEN S ELSE ZeroRegion(T)

\* the corner opposite to corner c
Opposite(c) == Position(GRID_HEIGHT - 1 - c.row, GRID_WIDTH - 1 - c.col)

Corners ==
    {Position(r, c) : r \in {0, GRID_HEIGHT - 1}, c \in {0, GRID_WIDTH - 1}}

\* C7: on a board with nothing explored, an OPEN on a cell with no mine
\* around it explores exactly its zero region and no mine; when the only
\* mine sits in a corner and the OPEN is on the opposite corner, every
\* non-mine cell is explored and the call posts GameEnd(win=True), whose
\* handler makes the session Won.
C7_FloodRegion ==
    [][/\ \A p \in Positions \ mines :
              ( /\ Handled(Selected(p, "OPEN"))
                /\ Revealed = {}
                /\ ~flagged[p]
                /\ AdjacentMines(p) = 0 ) =>
                  /\ {q \in Positions : explored'[q]} = ZeroRegion({p})
                  /\ ZeroRegion({p}) \cap mines = {}
                  /\ (\E c \in Corners : mines = {c} /\ p = Opposite(c)) =>
                         /\ {q \in Positions : explored'[q]} =
                                Positions \ mines
                         /\ queue'[Len(queue')] = GameEnd(TRUE)
       /\ Handled(GameEnd(TRUE)) => (disabled' /\ restart_label' = "cool")
      ]_vars

\* the only mine is in the corner (0,0), one OPEN was made, and it cleared
\* the whole board and the session is Won
C7_Witness ==
    /\ mines = {Position(0, 0)}
    /\ clicks = 1
    /\ explored[Opposite(Position(0, 0))]
    /\ Revealed = Positions \ mines
    /\ Status = "Won"

\* what an explored non-mine button shows for n mines around it
Shown(n) == IF n = 0 THEN CHAR_EMPTY ELSE NumberLabel(n)

\* C8 as claimed: at every position, mine positions included,
\* count_mines_near is the number of mines among the neighbours, the
\* position itself excluded.
C8_CountEveryPosition ==
    \A pos \in Positions : count_mines_near(pos) = AdjacentMines(pos)

\* C8 as amended: at every position that holds no mine, count_mines_near is
\* the number of mines among the neighbours on the board; every explored
\* non-mine button shows that number; and the unclipped scan, cut to the
\* board, visits the same positions as the clipped scan of the flood.
C8_CountNonMine ==
    /\ \A pos \in Positions \ mines :
           count_mines_near(pos) = AdjacentMines(pos)
    /\ \A pos \in Revealed \ mines : label[pos] = Shown(AdjacentMines(pos))
    /\ \A pos \in Positions :
           /\ UnclippedScan(pos) \cap Positions =
                  {ClippedScan(pos)[k] : k \in DOMAIN ClippedScan(pos)}
           /\ Len(ClippedScan(pos)) =
                  Cardinality(UnclippedScan(pos) \cap Positions)

\* a corner and an edge cell next to a mine have been opened and show 1 or
\* more
C8_Witness ==
    /\ \E pos \in (Revealed \cap Corners) \ mines : AdjacentMines(pos) >= 1
    /\ \E pos \in (Revealed \ Corners) \ mines :
           /\ AdjacentMines(pos) >= 1
           /\ pos.row \in {0, GRID_HEIGHT - 1}

\* C9: an OPEN handled on a button that is already explored changes nothing
\* and posts nothing.
C9_OpenTwice ==
    [][\A p \in Positions :
          (Handled(Selected(p, "OPEN")) /\ explored[p]) =>
              /\ UNCHANGED <<mines, explored, flagged, label, total_explored,
                             mines_flagged, disabled, restart_label>>
              /\ queue' = Tail(queue)]_vars

\* two OPENs were made, the second found the button explored, no mine is
\* explored
C9_Witness ==
    /\ outcome = "AlreadyRevealed"
    /\ clicks = 2
    /\ total_explored = 1
    /\ Revealed \cap mines = {}

\* C10: the mine set always holds exactly MINES_AMOUNT positions, all on the
\* board, and only the reset replaces it.
C10_MineSet ==
    /\ [](Cardinality(mines) = MINES_AMOUNT /\ mines \subseteq Positions)
    /\ [][mines' # mines => ResetStep]_vars

\* a reset has installed two mines, one of them in the last row and column
C10_Witness ==
    /\ outcome = "Reset"
    /\ Cardinality(mines) = 2
    /\ Position(GRID_HEIGHT - 1, GRID_WIDTH - 1) \in mines

\* C11: handle_selected on a FLAG aimed at an explored button changes
\* nothing; aimed at a button that is not explored it flips that button's
\* flagged (and no other), moves mines_flagged by +1 when the flag is set
\* and by -1 when it is removed, and leaves the status, total_explored,
\* every explored attribute and the mines alone.
C11_ToggleFlag ==
    [][\A p \in Positions :
          Handled(Selected(p, "FLAG")) =>
              /\ queue' = Tail(queue)
              /\ UNCHANGED <<mines, explored, total_explored, disabled,
                             restart_label>>
              /\ explored[p] => UNCHANGED <<flagged, label, mines_flagged>>
              /\ ~explored[p] =>
                     /\ flagged' = [flagged EXCEPT ![p] = ~flagged[p]]
                     /\ mines_flagged' - mines_flagged =
                            (IF flagged'[p] THEN 1 ELSE -1)
                     /\ label'[p] = (IF flagged'[p] THEN CHAR_FLAGGED
                                     ELSE CHAR_UNOPENED)]_vars

\* two FLAGs were handled, the second removed the flag the first had set:
\* no flag is left and the counter is back at 0
C11_Witness ==
    /\ outcome = "Unflagged"
    /\ clicks = 2
    /\ queue = <<>>
    /\ mines_flagged = 0
    /\ \A p \in Positions : ~flagged[p] /\ label[p] = CHAR_UNOPENED

\* C12: right after the reset the grid is enabled and the restart button
\* smiles (Playing), both counters are 0, every button is hidden, unflagged
\* and unopened, and the mine set has MINES_AMOUNT positions on the board.
C12_ResetClears ==
    outcome = "Reset" =>
        /\ Status = "Playing"
        /\ restart_label = "smile"
        /\ total_explored = 0
        /\ mines_flagged = 0
        /\ \A p \in Positions :
               ~explored[p] /\ ~flagged[p] /\ label[p] = CHAR_UNOPENED
        /\ Cardinality(mines) = MINES_AMOUNT
        /\ mines \subseteq Positions

\* the reset ran after both inputs of the run were handled and nothing is
\* left in either queue
C12_Witness ==
    /\ outcome = "Reset"
    /\ clicks = 2
    /\ queue = <<>>
    /\ ~reset_posted
    /\ ~disabled

\* C13: from every reachable grid, open_cell on any button returns (the
\* recursion ends) with a count that has not gone down; one OPEN adds to
\* total_explored exactly the number of buttons it newly explores (none is
\* counted twice), unexplores none and so reveals at most
\* GRID_HEIGHT * GRID_WIDTH buttons; total_explored never exceeds
\* GRID_HEIGHT * GRID_WIDTH.
C13_FloodBounded ==
    /\ [](total_explored <= GRID_HEIGHT * GRID_WIDTH)
    /\ [](\A p \in Positions :
              open_cell(GridNow, p).total \in
                  total_explored .. GRID_HEIGHT * GRID_WIDTH)
    /\ [][\A p \in Positions :
              Handled(Selected(p, "OPEN")) =>
                  /\ Revealed \subseteq Revealed'
                  /\ total_explored' - total_explored =
                         Cardinality(Revealed' \ Revealed)
                  /\ total_explored' - total_explored
                         <= GRID_HEIGHT * GRID_WIDTH]_vars

\* one OPEN flooded a region that meets every row and every column, so the
\* recursion came back to explored buttons many times over
C13_Witness ==
    /\ outcome = "Cleared"
    /\ clicks = 1
    /\ queue # <<>>
    /\ \A r \in Rows : \E c \in Cols : explored[Position(r, c)]
    /\ \A c \in Cols : \E r \in Rows : explored[Position(r, c)]
    /\ total_explored = Cardinality(Revealed)

\* C14: end_game changes neither counter and no explored attribute; after
\* GameEnd(win=False) every mine that is not flagged carries the mine label,
\* after GameEnd(win=True) every mine that is not flagged carries the flag
\* label.
C14_RevealKeepsCounters ==
    [][\A w \in BOOLEAN :
          Handled(GameEnd(w)) =>
              /\ UNCHANGED <<total_explored, mines_flagged, explored, mines>>
              /\ \A m \in mines :
                     ~flagged[m] =>
                         label'[m] = (IF w THEN CHAR_FLAGGED ELSE CHAR_MINE)]_vars

\* a win was displayed: a mine that nobody flagged shows the flag while
\* mines_flagged is still 0
C14_Witness ==
    /\ outcome = "GameEnd"
    /\ restart_label = "cool"
    /\ mines_flagged = 0
    /\ mines # {}
    /\ \A m \in mines : label[m] = CHAR_FLAGGED /\ ~explored[m]

C16_OneGameEnd ==
    [][/\ \A p \in Positions :
              Handled(Selected(p, "OPEN")) => Len(queue') <= Len(queue)
       /\ \A w \in BOOLEAN : Handled(GameEnd(w)) => ~disabled]_vars

\* a GameEnd message is posted and not yet handled
PendingEnd == \E i \in DOMAIN queue : queue[i].type = "GameEnd"

\* C17: while a GameEnd message is posted and not yet handled, the only
\* handler that changes the grid is end_game: no button is explored or
\* flagged, no counter moves and the mine set is not replaced.
C17_EndAtomic ==
    [][PendingEnd =>
          \/ \E w \in BOOLEAN : Handled(GameEnd(w))
          \/ UNCHANGED <<mines, explored, flagged, total_explored,
                         mines_flagged, disabled>>]_vars

\* C18: handling one OPEN explores no mine other than the button the OPEN
\* is aimed at, and it posts GameEnd(win=False) only when that button is a
\* mine it has just explored.
C18_FloodAvoidsMines ==
    [][\A p \in Positions :
          Handled(Selected(p, "OPEN")) =>
              /\ (Revealed' \ Revealed) \cap mines \subseteq {p}
              /\ (\E i \in Len(queue) .. Len(queue') :
                      queue'[i] = GameEnd(FALSE))
                     => (p \in mines /\ p \in Revealed' \ Revealed)]_vars

\* one OPEN flooded at least four buttons of a board with two mines and
\* both mines are still hidden
C18_Witness ==
    /\ outcome = "Cleared"
    /\ clicks = 1
    /\ MINES_AMOUNT = 2
    /\ total_explored >= 4
    /\ Revealed \cap mines = {}
    /\ \A i \in DOMAIN queue : queue[i] # GameEnd(FALSE)

\* C19: in every state between two handlers, each explored button that is
\* not a mine and has no mine around it has all its neighbours on the board
\* explored.
C19_ZeroCellsOpenNeighbours ==
    \A p \in Revealed \ mines :
        AdjacentMines(p) = 0 => Neighbourhood(p) \subseteq Revealed

\* a flood stopped at numbered buttons: a button without mines around it is
\* explored while some button that is not a mine is still hidden
C19_Witness ==
    /\ ~disabled
    /\ \E p \in Revealed \ mines : AdjacentMines(p) = 0
    /\ \E q \in Positions \ mines : ~explored[q]
    /\ Revealed \cap mines = {}

\* C20: while the grid is enabled, mines_flagged is the number of buttons
\* whose flagged attribute is true, so it lies between 0 and
\* GRID_HEIGHT * GRID_WIDTH (and is not held below MINES_AMOUNT).
C20_FlaggedCount ==
    ~disabled =>
        /\ mines_flagged = Cardinality({p \in Positions : flagged[p]})
        /\ 0 <= mines_flagged
        /\ mines_flagged <= GRID_HEIGHT * GRID_WIDTH

\* more buttons are flagged than there are mines
C20_Witness ==
    /\ ~disabled
    /\ mines_flagged > MINES_AMOUNT
    /\ Cardinality({p \in Positions : flagged[p]}) = mines_flagged

====
